---- MODULE Spec2Model ----
(***************************************************************************)
(* Model of _example/trysqlite3trace1/main.go (package main) and of the    *)
(* sqlite3tracemask helper package of gimpldo/sqlite3-util-go.             *)
(*                                                                         *)
(* Two specifications share the variables:                                 *)
(*   MaskSpec  main's handling of the trace-mask flags (main.go 157-178),  *)
(*             step by step and over all flag combinations, with the pure  *)
(*             functions DecodeStringArg, GenerateStringArg, EventMask;    *)
(*   Spec      main, dbMain, txWrap and the eight units of work, with the  *)
(*             defer stack and panics of the Go runtime made explicit.     *)
(***************************************************************************)
EXTENDS Integers, Sequences, FiniteSets, TLC

VARIABLES
    \* ---- trace mask (main.go 155-178, package sqlite3tracemask)
    mpc,            \* position in the mask part of main
    maskConf,       \* var maskConf sqlite3tracemask.Config
    maskConf0,      \* history: maskConf as the boolean flags left it
    maskStr,        \* var maskStr string (the -trace-mask flag)
    shortForm,      \* history: the string printed by line 176
    numMask,        \* history: the number printed by line 178
    \* ---- flags and globals of package main
    dbFilename, nRows, rollbackAlways, noteTextPattern, rowSeqNum,
    \* ---- control
    pc,             \* position of the single goroutine
    stage,          \* which of dbMain's eight units of work (lines 225-248)
    i,              \* loop index of the insert loops
    defers,         \* the goroutine's stack of deferred calls
    panicking,      \* the panic value in flight, <<>> when none
    ret,            \* dbMain's return value, <<>> until it returns
    exitCode,       \* the process exit code, <<>> while running
    console,        \* messages printed by lines 193 and 212
    \* ---- database/sql objects
    db,             \* "unopened", "open", "closed"
    table,          \* committed rows of t1
    tx,             \* "none", "Active", "Committed", "RolledBack", "CommitFailed"
    txRows,         \* rows inserted in the active transaction, uncommitted
    stmt,           \* prepared statement: "none", "open", "closed"
    rows,           \* row cursor: "none", "open", "closed"
    fetched,        \* rows the last rowsDoFetch iterated over
    \* ---- locals of txWrap
    panicked, err,
    \* ---- history (observations of what the code did)
    trace,          \* calls made by the current unit of work and its wrapper
    wrap,           \* txWrap call: "idle" (none), "running", "returned",
                    \* "propagated" (a panic left it)
    beginRes, commitRes,   \* what db.Begin / tx.Commit returned
    raised,         \* the panic value as first raised
    activeTx,       \* transactions begun and not yet committed or rolled back
    nExecOK,        \* inserts whose Exec returned no error
    nChecked,       \* inserts whose resultDoCheck returned
    txCommitted,    \* rows inserted by units of work whose commit succeeded
    txRolledBack,   \* rows inserted by units of work that were rolled back
    dbMainEntered   \* dbMain has been called

maskVars == <<mpc, maskConf, maskConf0, maskStr, shortForm, numMask>>
flagVars == <<dbFilename, nRows, rollbackAlways, noteTextPattern>>
ctlVars  == <<pc, stage, i, defers, panicking, ret, exitCode>>
sqlVars  == <<db, table, tx, txRows, stmt, rows, fetched>>
wrapVars == <<panicked, err>>
histVars == <<trace, wrap, beginRes, commitRes, raised, activeTx, nExecOK,
              nChecked, txCommitted, txRolledBack, dbMainEntered>>
vars == <<maskVars, flagVars, console, rowSeqNum, ctlVars, sqlVars, wrapVars, histVars>>

----------------------------------------------------------------------------
(* Bounds *)

\* longest -trace-mask string tried
MaxStrLen == 3
\* largest -nrows value tried
MaxRows == 4

----------------------------------------------------------------------------
(* package sqlite3tracemask *)

\* the bit values of sqlite3.TraceStmt .. sqlite3.TraceClose (SQLITE_TRACE_*)
TraceStmt == 1
TraceProfile == 2
TraceRow == 4
TraceClose == 8

\* type Config struct { Stmt, Profile, Row, Close bool }
Flags == {"Stmt", "Profile", "Row", "Close"}
Config == [Flags -> BOOLEAN]
ZeroConfig == [f \in Flags |-> FALSE]

\* characters a -trace-mask string is built from: the four recognised
\* letters, an upper-case one and one unrelated character
Chars == {"s", "p", "r", "c", "S", "x"}

RECURSIVE StringsUpTo(_)
StringsUpTo(n) ==
    IF n = 0 THEN {<<>>}
    ELSE LET shorter == StringsUpTo(n - 1)
         IN  shorter \cup {Append(s, c) : s \in {t \in shorter : Len(t) = n - 1},
                                           c \in Chars}

\* x | y on unsigned integers
RECURSIVE BitOr(_, _)
BitOr(x, y) ==
    IF x = 0 THEN y
    ELSE IF y = 0 THEN x
    ELSE (IF x % 2 = 1 \/ y % 2 = 1 THEN 1 ELSE 0) + 2 * BitOr(x \div 2, y \div 2)

\* the body of DecodeStringArg's loop: one switch over the character c
DecodeChar_DropsPrior(dest, c) ==
    IF c = "s" THEN [ZeroConfig EXCEPT !["Stmt"] = TRUE]
    ELSE IF c = "p" THEN [ZeroConfig EXCEPT !["Profile"] = TRUE]
    ELSE IF c = "r" THEN [ZeroConfig EXCEPT !["Row"] = TRUE]
    ELSE IF c = "c" THEN [ZeroConfig EXCEPT !["Close"] = TRUE]
    ELSE dest
DecodeChar(dest, c) ==
    IF c = "s" THEN [dest EXCEPT !["Stmt"] = TRUE]
    ELSE IF c = "p" THEN [dest EXCEPT !["Profile"] = TRUE]
    ELSE IF c = "r" THEN [dest EXCEPT !["Row"] = TRUE]
    ELSE IF c = "c" THEN [dest EXCEPT !["Close"] = TRUE]
    ELSE dest

\* func DecodeStringArg(dest *Config, s string): for _, c := range s
RECURSIVE DecodeStringArg(_, _)
DecodeStringArg(dest, s) ==
    IF s = <<>> THEN dest
    ELSE DecodeStringArg(DecodeChar(dest, Head(s)), Tail(s))

\* func (c *Config) GenerateStringArg() string
GenerateStringArg_RowAsClose(c) ==
    (IF c["Stmt"] THEN <<"s">> ELSE <<>>)
    \o (IF c["Profile"] THEN <<"p">> ELSE <<>>)
    \o (IF c["Row"] THEN <<"c">> ELSE <<>>)
    \o (IF c["Close"] THEN <<"c">> ELSE <<>>)
GenerateStringArg(c) ==
    (IF c["Stmt"] THEN <<"s">> ELSE <<>>)
    \o (IF c["Profile"] THEN <<"p">> ELSE <<>>)
    \o (IF c["Row"] THEN <<"r">> ELSE <<>>)
    \o (IF c["Close"] THEN <<"c">> ELSE <<>>)

\* func (c *Config) EventMask() uint
EventMask(c) ==
    LET m0 == 0
        m1 == IF c["Stmt"] THEN BitOr(m0, TraceStmt) ELSE m0
        m2 == IF c["Profile"] THEN BitOr(m1, TraceProfile) ELSE m1
        m3 == IF c["Row"] THEN BitOr(m2, TraceRow) ELSE m2
        m4 == IF c["Close"] THEN BitOr(m3, TraceClose) ELSE m3
    IN  m4

----------------------------------------------------------------------------
(* package main: values *)

\* a nil error, and the errors database/sql may return
NoErr == "nil"
Errors == {"SQLITE_BUSY", "SQLITE_IOERR"}
Results == {NoErr} \cup Errors
\* Commit or Rollback on a transaction that is already finished
ErrTxDone == "sql: transaction has already been committed or rolled back"

\* no panic in flight
NoPanic == <<>>

\* flag values tried: -db, -search-pat, -nrows (any int is accepted)
Filenames == {"", "test.db"}
Patterns == {"", "%"}
NRowsValues == (0 - 1) .. MaxRows

\* os.Exit(3) of line 194
ExitFilenameMissing == 3

\* dbMain's eight units of work, in the order of lines 225-248:
\* 1 dbDoInsert, 2 txDoInsert, 3 dbDoInsertPrepared, 4 txDoInsertPrepared,
\* 5 dbDoSelect, 6 txDoSelect, 7 dbDoSelectPrepared, 8 txDoSelectPrepared
LastStage == 8
IsTx(s) == s \in {2, 4, 6, 8}
IsInsert(s) == s \in {1, 2, 3, 4}
IsPrepared(s) == s \in {3, 4, 7, 8}

\* const Descr of the four insert functions (the note is noteTextPrefix+Descr;
\* the common prefix is left out)
Descr(s) ==
    CASE s = 1 -> "DB-imm"
      [] s = 2 -> "Tx-imm"
      [] s = 3 -> "DB-Prepare"
      [] s = 4 -> "Tx-Prepare"
      [] OTHER -> ""

\* note LIKE ? of selectDML, for the patterns tried: "%" matches every note,
\* a pattern without wildcard matches the equal note only
Like(pattern, note) == pattern = "%" \/ pattern = note

\* the rows a select sees: committed rows, and inside a transaction its own
Visible(inTx) == IF inTx THEN table \o txRows ELSE table

Top(ds) == ds[Len(ds)]
Pop(ds) == SubSeq(ds, 1, Len(ds) - 1)

Count(s, e) == Cardinality({k \in 1..Len(s) : s[k] = e})
Index(s, e) == IF \E k \in 1..Len(s) : s[k] = e
               THEN CHOOSE k \in 1..Len(s) : s[k] = e /\ \A j \in 1..(k-1) : s[j] # e
               ELSE 0
RangeOf(s) == {s[k] : k \in 1..Len(s)}

----------------------------------------------------------------------------
(* MaskSpec: main.go 157-178 *)

\* the state package main is left in while the mask part is examined
MainOff ==
    /\ dbFilename = "" /\ nRows = 0 /\ rollbackAlways = FALSE
    /\ noteTextPattern = "" /\ rowSeqNum = 0
    /\ pc = "off" /\ stage = 0 /\ i = 0 /\ defers = <<>> /\ panicking = NoPanic
    /\ ret = <<>> /\ exitCode = <<>> /\ console = <<>>
    /\ db = "unopened" /\ table = <<>> /\ tx = "none" /\ txRows = <<>>
    /\ stmt = "none" /\ rows = "none" /\ fetched = <<>>
    /\ panicked = FALSE /\ err = NoErr
    /\ trace = <<>> /\ wrap = "idle" /\ beginRes = NoErr /\ commitRes = NoErr
    /\ raised = NoPanic /\ activeTx = 0 /\ nExecOK = 0 /\ nChecked = 0
    /\ txCommitted = <<>> /\ txRolledBack = <<>> /\ dbMainEntered = FALSE

mainVars == <<flagVars, console, rowSeqNum, ctlVars, sqlVars, wrapVars, histVars>>

\* after flag.Parse() (line 168): the four boolean flags and -trace-mask
MaskInit ==
    /\ mpc = "parsed"
    /\ maskConf \in Config
    /\ maskConf0 = maskConf
    /\ maskStr \in StringsUpTo(MaxStrLen)
    /\ shortForm = <<>>
    /\ numMask = 0
    /\ MainOff

\* line 170: sqlite3tracemask.DecodeStringArg(&maskConf, maskStr)
mainDecodeMask ==
    /\ mpc = "parsed"
    /\ maskConf' = DecodeStringArg(maskConf, maskStr)
    /\ mpc' = "decoded"
    /\ UNCHANGED <<maskConf0, maskStr, shortForm, numMask, mainVars>>

\* lines 176-178: the short form and the numeric mask are printed
mainPrintMask ==
    /\ mpc = "decoded"
    /\ shortForm' = GenerateStringArg(maskConf)
    /\ numMask' = EventMask(maskConf)
    /\ mpc' = "printed"
    /\ UNCHANGED <<maskConf, maskConf0, maskStr, mainVars>>

MaskNext == mainDecodeMask \/ mainPrintMask

MaskSpec == MaskInit /\ [][MaskNext]_vars

----------------------------------------------------------------------------
(* Spec: main, dbMain, txWrap and the units of work *)

\* the trace flags tried together with the other flags: none, or -trace-row
\* with -trace-mask=sx
MainMaskFlags ==
    {<<ZeroConfig, <<>> >>, <<[f \in Flags |-> f = "Row"], <<"s", "x">> >>}

\* after flag.Parse() (line 168); package-level variables hold zero values
Init ==
    /\ mpc = "parsed"
    /\ \E mf \in MainMaskFlags : maskConf = mf[1] /\ maskStr = mf[2]
    /\ maskConf0 = maskConf
    /\ shortForm = <<>>
    /\ numMask = 0
    /\ dbFilename \in Filenames
    /\ nRows \in NRowsValues
    /\ rollbackAlways \in BOOLEAN
    /\ noteTextPattern \in Patterns
    /\ rowSeqNum = 0
    /\ pc = "main" /\ stage = 0 /\ i = 0 /\ defers = <<>> /\ panicking = NoPanic
    /\ ret = <<>> /\ exitCode = <<>> /\ console = <<>>
    /\ db = "unopened" /\ table = <<>> /\ tx = "none" /\ txRows = <<>>
    /\ stmt = "none" /\ rows = "none" /\ fetched = <<>>
    /\ panicked = FALSE /\ err = NoErr
    /\ trace = <<>> /\ wrap = "idle" /\ beginRes = NoErr /\ commitRes = NoErr
    /\ raised = NoPanic /\ activeTx = 0 /\ nExecOK = 0 /\ nChecked = 0
    /\ txCommitted = <<>> /\ txRolledBack = <<>> /\ dbMainEntered = FALSE

\* log.Panic(v): the goroutine starts unwinding with panic value v
Panic(v) ==
    /\ pc' = "unwind"
    /\ panicking' = v
    /\ raised' = v

\* line 192: if dbFilename == ""
FilenameMissing_Never(f) == FALSE
FilenameMissing(f) == f = ""

\* main, lines 170-197: decode and print the mask, register the driver, check
\* the filename, call dbMain
main ==
    /\ pc = "main"
    /\ maskConf' = DecodeStringArg(maskConf, maskStr)
    /\ shortForm' = GenerateStringArg(maskConf')
    /\ numMask' = EventMask(maskConf')
    /\ mpc' = "printed"
    /\ IF FilenameMissing(dbFilename)
       THEN /\ console' = Append(console, "SQLite database filename not specified. Use --db=...")
            /\ pc' = "exited"
            /\ exitCode' = <<ExitFilenameMissing>>
            /\ UNCHANGED dbMainEntered
       ELSE /\ pc' = "dbMain"
            /\ dbMainEntered' = TRUE
            /\ UNCHANGED <<exitCode, console>>
    /\ UNCHANGED <<maskConf0, maskStr, flagVars, rowSeqNum, stage, i, defers,
                   panicking, ret, sqlVars, wrapVars, trace, wrap, beginRes,
                   commitRes, raised, activeTx, nExecOK, nChecked, txCommitted,
                   txRolledBack>>

\* dbMain, lines 210-216: sql.Open, defer db.Close()
dbMainOpen ==
    /\ pc = "dbMain"
    /\ \E r \in Results :
         IF r # NoErr
         THEN /\ console' = Append(console, "Failed to open database")
              /\ ret' = <<1>>
              /\ pc' = "dbMain_ret"
              /\ UNCHANGED <<db, defers>>
         ELSE /\ db' = "open"
              /\ defers' = Append(defers, "db.Close")
              /\ pc' = "ping"
              /\ UNCHANGED <<ret, console>>
    /\ UNCHANGED <<maskVars, flagVars, rowSeqNum, stage, i, panicking, exitCode,
                   table, tx, txRows, stmt, rows, fetched, wrapVars, histVars>>

\* what a failing step leaves unchanged besides pc, panicking and raised
PanicFrame ==
    UNCHANGED <<maskVars, flagVars, console, rowSeqNum, stage, i, defers, ret,
                exitCode, sqlVars, wrapVars, trace, wrap, beginRes, commitRes,
                activeTx, nExecOK, nChecked, txCommitted, txRolledBack,
                dbMainEntered>>

\* dbMain, lines 218-221: db.Ping()
dbMainPing ==
    /\ pc = "ping"
    /\ \E r \in Results :
         IF r # NoErr
         THEN Panic(<<r>>) /\ PanicFrame
         ELSE /\ pc' = "dbSetup_drop"
              /\ UNCHANGED <<panicking, raised>>
              /\ PanicFrame

\* dbSetup, lines 276-279: DROP TABLE IF EXISTS t1
dbSetupDrop ==
    /\ pc = "dbSetup_drop"
    /\ \E r \in Results :
         IF r # NoErr
         THEN Panic(<<r>>) /\ PanicFrame
         ELSE /\ pc' = "dbSetup_create"
              /\ table' = <<>>
              /\ UNCHANGED <<maskVars, flagVars, console, rowSeqNum, stage, i, defers,
                             panicking, ret, exitCode, db, tx, txRows, stmt,
                             rows, fetched, wrapVars, histVars>>

\* dbSetup, lines 280-283: CREATE TABLE t1; then dbMain goes on to line 225
dbSetupCreate ==
    /\ pc = "dbSetup_create"
    /\ \E r \in Results :
         IF r # NoErr
         THEN Panic(<<r>>) /\ PanicFrame
         ELSE /\ pc' = "call"
              /\ stage' = 1
              /\ UNCHANGED <<maskVars, flagVars, console, rowSeqNum, i, defers,
                             panicking, ret, exitCode, sqlVars, wrapVars,
                             histVars>>

\* the first statement of each unit of work
WorkEntry(s) ==
    IF IsPrepared(s) THEN "prepare"
    ELSE IF IsInsert(s) THEN "loop"
    ELSE "query"

\* dbMain, lines 225, 232, 239, 246: call dbDoInsert, dbDoInsertPrepared,
\* dbDoSelect or dbDoSelectPrepared
dbCall ==
    /\ pc = "call"
    /\ ~IsTx(stage)
    /\ pc' = WorkEntry(stage)
    /\ i' = 0
    /\ stmt' = "none"
    /\ rows' = "none"
    /\ trace' = <<>>
    /\ wrap' = "idle"
    /\ UNCHANGED <<maskVars, flagVars, console, rowSeqNum, stage, defers, panicking, ret,
                   exitCode, db, table, tx, txRows, fetched, wrapVars,
                   beginRes, commitRes, raised, activeTx, nExecOK, nChecked,
                   txCommitted, txRolledBack, dbMainEntered>>

\* txWrap, line 79: panicked := true
PanickedInit_False == FALSE
PanickedInit == TRUE

\* txWrap, line 82: if txErr != nil
BeginFailed_Ignored(txErr) == FALSE
BeginFailed(txErr) == txErr # NoErr

\* txWrap, lines 79-105: db.Begin(), the early return, defer func(){...}(),
\* and the call txFunc(tx)
txWrapBegin ==
    /\ pc = "call"
    /\ IsTx(stage)
    /\ panicked' = PanickedInit
    /\ stmt' = "none"
    /\ rows' = "none"
    /\ i' = 0
    /\ \E txErr \in Results :
         /\ beginRes' = txErr
         /\ IF BeginFailed(txErr)
            THEN /\ err' = txErr
                 /\ wrap' = "returned"
                 /\ pc' = "txWrap_ret"
                 /\ trace' = <<>>
                 /\ UNCHANGED <<tx, activeTx, defers>>
            ELSE /\ err' = NoErr
                 /\ wrap' = "running"
                 /\ tx' = IF txErr = NoErr THEN "Active" ELSE "none"
                 /\ activeTx' = IF txErr = NoErr THEN activeTx + 1 ELSE activeTx
                 /\ defers' = Append(defers, "txWrap.func1")
                 /\ trace' = (IF txErr = NoErr THEN <<"Begin">> ELSE <<>>)
                             \o <<"txFunc">>
                 /\ pc' = WorkEntry(stage)
    /\ txRows' = <<>>
    /\ UNCHANGED <<maskVars, flagVars, console, rowSeqNum, stage, panicking, ret,
                   exitCode, db, table, fetched, commitRes, raised, nExecOK,
                   nChecked, txCommitted, txRolledBack, dbMainEntered>>


\* lines 317-321, 338-342, 390-394, 406-410: Prepare, then defer stmt.Close()
workPrepare ==
    /\ pc = "prepare"
    /\ \E r \in Results :
         IF r # NoErr
         THEN Panic(<<r>>) /\ PanicFrame
         ELSE /\ stmt' = "open"
              /\ defers' = Append(defers, "stmt.Close")
              /\ trace' = Append(trace, "Prepare")
              /\ pc' = IF IsInsert(stage) THEN "loop" ELSE "query"
              /\ UNCHANGED <<maskVars, flagVars, console, rowSeqNum, stage, i, panicking,
                             ret, exitCode, db, table, tx, txRows, rows,
                             fetched, wrapVars, wrap, beginRes, commitRes,
                             raised, activeTx, nExecOK, nChecked, txCommitted,
                             txRolledBack, dbMainEntered>>

\* rowSeqNum++ (lines 296, 310, 331, 352)
NextSeqNum_Skip(n) == n + 2
NextSeqNum(n) == n + 1

\* one iteration of the insert loops (lines 288-297, 302-311, 323-332,
\* 344-353): Exec, resultDoCheck (lines 356-367), rowSeqNum++
workInsertRow ==
    /\ pc = "loop"
    /\ i < nRows
    /\ \E r \in Results, chk \in Results :
         IF r # NoErr
         THEN Panic(<<r>>) /\ PanicFrame
         ELSE /\ LET row == <<rowSeqNum, Descr(stage)>>
                 IN  IF IsTx(stage)
                     THEN txRows' = Append(txRows, row) /\ UNCHANGED table
                     ELSE table' = Append(table, row) /\ UNCHANGED txRows
              /\ trace' = Append(trace, "Exec")
              /\ nExecOK' = nExecOK + 1
              /\ IF chk # NoErr
                 THEN /\ Panic(<<chk>>)
                      /\ UNCHANGED <<nChecked, rowSeqNum, i>>
                 ELSE /\ nChecked' = nChecked + 1
                      /\ rowSeqNum' = NextSeqNum(rowSeqNum)
                      /\ i' = i + 1
                      /\ UNCHANGED <<pc, panicking, raised>>
              /\ UNCHANGED <<maskVars, flagVars, console, stage, defers, ret, exitCode,
                             db, tx, stmt, rows, fetched, wrapVars, wrap,
                             beginRes, commitRes, activeTx, txCommitted,
                             txRolledBack, dbMainEntered>>

\* the insert loops end: i < nRows is false
workInsertDone ==
    /\ pc = "loop"
    /\ ~(i < nRows)
    /\ pc' = "work_return"
    /\ UNCHANGED <<maskVars, flagVars, console, rowSeqNum, stage, i, defers, panicking,
                   ret, exitCode, sqlVars, wrapVars, histVars>>

\* defer rows.Close() after a successful Query (lines 374, 384, 400, 416)
OnQueryOK_NoDefer(ds) == ds
OnQueryOK(ds) == Append(ds, "rows.Close")

\* lines 370-374, 380-384, 396-400, 412-416: Query, then defer rows.Close()
workQuery ==
    /\ pc = "query"
    /\ \E r \in Results :
         IF r # NoErr
         THEN Panic(<<r>>) /\ PanicFrame
         ELSE /\ rows' = "open"
              /\ defers' = OnQueryOK(defers)
              /\ trace' = Append(trace, "Query")
              /\ pc' = "fetch"
              /\ UNCHANGED <<maskVars, flagVars, console, rowSeqNum, stage, i, panicking,
                             ret, exitCode, db, table, tx, txRows, stmt,
                             fetched, wrapVars, wrap, beginRes, commitRes,
                             raised, activeTx, nExecOK, nChecked, txCommitted,
                             txRolledBack, dbMainEntered>>

\* rowsDoFetch, lines 421-428: iterate with rows.Next(), then check rows.Err()
rowsDoFetch ==
    /\ pc = "fetch"
    /\ \E r \in Results :
         IF r # NoErr
         THEN Panic(<<r>>) /\ PanicFrame
         ELSE /\ fetched' = SelectSeq(Visible(IsTx(stage)),
                                      LAMBDA row : Like(noteTextPattern, row[2]))
              /\ pc' = "work_return"
              /\ UNCHANGED <<maskVars, flagVars, console, rowSeqNum, stage, i, defers,
                             panicking, ret, exitCode, db, table, tx, txRows,
                             stmt, rows, wrapVars, histVars>>

\* a deferred rows.Close() runs, on return or while unwinding
deferredRowsClose ==
    /\ pc \in {"work_return", "unwind"}
    /\ defers # <<>>
    /\ Top(defers) = "rows.Close"
    /\ rows' = "closed"
    /\ trace' = Append(trace, "rows.Close")
    /\ defers' = Pop(defers)
    /\ UNCHANGED <<maskVars, flagVars, console, rowSeqNum, pc, stage, i, panicking, ret,
                   exitCode, db, table, tx, txRows, stmt, fetched, wrapVars,
                   wrap, beginRes, commitRes, raised, activeTx, nExecOK,
                   nChecked, txCommitted, txRolledBack, dbMainEntered>>

\* a deferred stmt.Close() runs, on return or while unwinding
deferredStmtClose ==
    /\ pc \in {"work_return", "unwind"}
    /\ defers # <<>>
    /\ Top(defers) = "stmt.Close"
    /\ stmt' = "closed"
    /\ trace' = Append(trace, "stmt.Close")
    /\ defers' = Pop(defers)
    /\ UNCHANGED <<maskVars, flagVars, console, rowSeqNum, pc, stage, i, panicking, ret,
                   exitCode, db, table, tx, txRows, rows, fetched, wrapVars,
                   wrap, beginRes, commitRes, raised, activeTx, nExecOK,
                   nChecked, txCommitted, txRolledBack, dbMainEntered>>

\* a unit of work returns to dbMain (db functions) or to txWrap, whose
\* lines 107-109 then run: panicked = false; return nil
workReturn ==
    /\ pc = "work_return"
    /\ defers # <<>>
    /\ Top(defers) \notin {"rows.Close", "stmt.Close"}
    /\ IF IsTx(stage)
       THEN /\ panicked' = FALSE
            /\ err' = NoErr
            /\ pc' = "txWrap_return"
            /\ UNCHANGED stage
       ELSE /\ pc' = "call"
            /\ stage' = stage + 1
            /\ UNCHANGED <<panicked, err>>
    /\ UNCHANGED <<maskVars, flagVars, console, rowSeqNum, i, defers, panicking, ret,
                   exitCode, sqlVars, histVars>>


\* txWrap's deferred closure, lines 93-102: the calls it makes on tx, in order
DeferCalls_NoReturn(p, ra) ==
    (IF p THEN <<"Rollback">> ELSE <<>>)
    \o (IF ra THEN <<"Rollback">> ELSE <<"Commit">>)
DeferCalls_AlwaysCommit(p, ra) ==
    IF p THEN <<"Rollback">> ELSE <<"Commit">>
DeferCalls(p, ra) ==
    IF p THEN <<"Rollback">>
    ELSE IF ra THEN <<"Rollback">>
    ELSE <<"Commit">>

\* line 101: err = tx.Commit()
TxWrapResult_Dropped(commitErr) == NoErr
TxWrapResult(commitErr) == commitErr

\* txWrap's deferred closure (lines 88-103) runs, after "return nil" or while
\* a panic of the unit of work unwinds; it does not call recover(), so a panic
\* stays in flight.  The first call on tx finishes the transaction (an error
\* returned by Rollback is dropped by lines 94 and 99; a failed Commit leaves
\* nothing committed); a further call would return ErrTxDone.
txWrapDeferred ==
    /\ pc \in {"txWrap_return", "unwind"}
    /\ defers # <<>>
    /\ Top(defers) = "txWrap.func1"
    /\ LET calls == DeferCalls(panicked, rollbackAlways)
           commits == calls # <<>> /\ calls[1] = "Commit"
           rollsBack == calls # <<>> /\ calls[1] = "Rollback"
       IN  \E r \in Results :
             /\ trace' = trace \o calls
             /\ commitRes' = IF commits THEN r ELSE commitRes
             /\ err' = IF commits THEN TxWrapResult(r)
                       ELSE IF "Commit" \in RangeOf(calls) THEN TxWrapResult(ErrTxDone)
                       ELSE err
             /\ tx' = IF rollsBack THEN "RolledBack"
                      ELSE IF commits
                           THEN (IF r = NoErr THEN "Committed" ELSE "CommitFailed")
                           ELSE tx
             /\ activeTx' = IF calls # <<>> /\ tx = "Active"
                            THEN activeTx - 1 ELSE activeTx
             /\ table' = IF commits /\ r = NoErr THEN table \o txRows ELSE table
             /\ txCommitted' = IF commits /\ r = NoErr
                               THEN txCommitted \o txRows ELSE txCommitted
             /\ txRolledBack' = IF rollsBack
                                THEN txRolledBack \o txRows ELSE txRolledBack
             /\ txRows' = IF calls # <<>> THEN <<>> ELSE txRows
    /\ defers' = Pop(defers)
    /\ IF pc = "unwind"
       THEN wrap' = "propagated" /\ UNCHANGED pc
       ELSE wrap' = "returned" /\ pc' = "txWrap_ret"
    /\ UNCHANGED <<maskVars, flagVars, console, rowSeqNum, stage, i, panicking, ret,
                   exitCode, db, stmt, rows, fetched, panicked, beginRes,
                   raised, nExecOK, nChecked, dbMainEntered>>

\* dbMain, lines 227-253: if err != nil { log.Panicf(...) }, then the next
\* unit of work, or return 0 after the last
dbMainCheckErr ==
    /\ pc = "txWrap_ret"
    /\ IF err # NoErr
       THEN Panic(<<"Transaction Wrapper error: ", err>>) /\ PanicFrame
       ELSE /\ IF stage = LastStage
               THEN pc' = "dbMain_return" /\ ret' = <<0>> /\ UNCHANGED stage
               ELSE pc' = "call" /\ stage' = stage + 1 /\ UNCHANGED ret
            /\ UNCHANGED <<maskVars, flagVars, console, rowSeqNum, i, defers, panicking,
                           exitCode, sqlVars, wrapVars, histVars>>

\* dbMain's defer db.Close() (line 216) runs, on return or while unwinding
deferredDbClose ==
    /\ pc \in {"dbMain_return", "unwind"}
    /\ defers # <<>>
    /\ Top(defers) = "db.Close"
    /\ db' = "closed"
    /\ defers' = Pop(defers)
    /\ pc' = IF pc = "dbMain_return" THEN "dbMain_ret" ELSE pc
    /\ UNCHANGED <<maskVars, flagVars, console, rowSeqNum, stage, i, panicking, ret,
                   exitCode, table, tx, txRows, stmt, rows, fetched, wrapVars,
                   histVars>>

\* main, line 197: os.Exit(dbMain(dbFilename))
mainExit ==
    /\ pc = "dbMain_ret"
    /\ exitCode' = ret
    /\ pc' = "exited"
    /\ UNCHANGED <<maskVars, flagVars, console, rowSeqNum, stage, i, defers, panicking,
                   ret, sqlVars, wrapVars, histVars>>

\* a panic that no deferred call recovered ends the process
crash ==
    /\ pc = "unwind"
    /\ defers = <<>>
    /\ pc' = "crashed"
    /\ UNCHANGED <<maskVars, flagVars, console, rowSeqNum, stage, i, defers, panicking,
                   ret, exitCode, sqlVars, wrapVars, histVars>>

Next ==
    \/ main
    \/ dbMainOpen
    \/ dbMainPing
    \/ dbSetupDrop
    \/ dbSetupCreate
    \/ dbCall
    \/ txWrapBegin
    \/ workPrepare
    \/ workInsertRow
    \/ workInsertDone
    \/ workQuery
    \/ rowsDoFetch
    \/ deferredRowsClose
    \/ deferredStmtClose
    \/ workReturn
    \/ txWrapDeferred
    \/ dbMainCheckErr
    \/ deferredDbClose
    \/ mainExit
    \/ crash

Spec == Init /\ [][Next]_vars

----------------------------------------------------------------------------
(* Claims *)

CommitCalls == Count(trace, "Commit")
RollbackCalls == Count(trace, "Rollback")
WrapEnded == wrap \in {"returned", "propagated"}

\* C1 as stated: every txWrap call, whatever db.Begin returned, makes exactly
\* one call of tx.Commit or tx.Rollback
C1_ExactlyOneAnyBegin ==
    WrapEnded => CommitCalls + RollbackCalls = 1

\* C1 amended: a txWrap call whose db.Begin succeeded makes exactly one call
\* of tx.Commit or tx.Rollback, never both and never neither; a call whose
\* db.Begin failed makes none
C1_ExactlyOneWhenBegun ==
    /\ CommitCalls + RollbackCalls <= 1
    /\ (WrapEnded /\ beginRes = NoErr) => CommitCalls + RollbackCalls = 1
    /\ (WrapEnded /\ beginRes # NoErr) => CommitCalls + RollbackCalls = 0
    /\ (wrap = "running") => CommitCalls + RollbackCalls = 0

C1_Witness ==
    /\ wrap = "returned" /\ beginRes = NoErr /\ stage = 2 /\ nRows = 2
    /\ CommitCalls = 1 /\ RollbackCalls = 0

\* C2: a panic of the unit of work makes txWrap call tx.Rollback and never
\* tx.Commit, whatever rollbackAlways is; the panic leaves txWrap only after
\* the rollback, with the value it was raised with, and txWrap does not return
C2_PanicRollsBackThenPropagates ==
    /\ (wrap = "propagated") =>
          /\ RollbackCalls = 1 /\ CommitCalls = 0
          /\ trace[Len(trace)] = "Rollback"
          /\ tx = "RolledBack" /\ txRows = <<>>
          /\ panicking # NoPanic /\ panicking = raised
          /\ pc \in {"unwind", "crashed"}
    /\ (wrap = "running" /\ panicking # NoPanic) =>
          /\ "txWrap.func1" \in RangeOf(defers)
          /\ RollbackCalls = 0 /\ CommitCalls = 0
          /\ db = "open"
          /\ panicking = raised

C2_Witness ==
    /\ wrap = "propagated" /\ ~rollbackAlways /\ stage = 4
    /\ raised = <<"SQLITE_BUSY">> /\ panicking = raised
    /\ pc = "crashed" /\ RollbackCalls = 1 /\ nExecOK = 4

\* C3: Begin succeeded, the unit of work returned and rollbackAlways is false:
\* tx.Commit is called once, tx.Rollback never, txWrap returns what tx.Commit
\* returned; rows of a committed unit of work are in the table and a later
\* select whose pattern matches them sees them
C3_CommitResultReturned ==
    /\ (wrap = "returned" /\ beginRes = NoErr /\ ~rollbackAlways) =>
          /\ CommitCalls = 1 /\ RollbackCalls = 0
          /\ err = commitRes
          /\ tx = IF commitRes = NoErr THEN "Committed" ELSE "CommitFailed"
    /\ \A k \in 1..Len(txCommitted) : txCommitted[k] \in RangeOf(table)
    /\ (pc = "work_return" /\ ~IsInsert(stage) /\ noteTextPattern = "%") =>
          \A k \in 1..Len(txCommitted) : txCommitted[k] \in RangeOf(fetched)

C3_Witness ==
    /\ pc = "work_return" /\ stage = 6 /\ noteTextPattern = "%"
    /\ nRows = 4 /\ Len(txCommitted) = 8 /\ Len(fetched) = 16
    /\ \A k \in 1..Len(txCommitted) : txCommitted[k] \in RangeOf(fetched)

\* C4: rollbackAlways is true and the unit of work returned: tx.Rollback is
\* called, tx.Commit never, txWrap returns nil; the rows the unit of work
\* inserted are in the table for no later select and no select fetches them
C4_RollbackAlwaysDiscards ==
    /\ (wrap = "returned" /\ beginRes = NoErr /\ rollbackAlways) =>
          /\ RollbackCalls = 1 /\ CommitCalls = 0
          /\ err = NoErr
          /\ tx = "RolledBack"
    /\ rollbackAlways => txCommitted = <<>>
    /\ \A k \in 1..Len(txRolledBack) :
          /\ txRolledBack[k] \notin RangeOf(table)
          /\ txRolledBack[k] \notin RangeOf(fetched)

C4_Witness ==
    /\ rollbackAlways /\ nRows = 4 /\ noteTextPattern = "%"
    /\ pc = "work_return" /\ stage = 5
    /\ Len(txRolledBack) = 8 /\ Len(fetched) = 8
    /\ \A k \in 1..Len(fetched) : fetched[k][2] \in {"DB-imm", "DB-Prepare"}

\* C5: db.Begin failed: txWrap returns that error without a panic of its own,
\* the unit of work is not run, no call is made on a transaction and none is
\* active; only dbMain's log.Panicf follows
C5_BeginFailureReturned ==
    (beginRes # NoErr) =>
        /\ wrap = "returned"
        /\ err = beginRes
        /\ trace = <<>>
        /\ tx # "Active" /\ activeTx = 0 /\ txRows = <<>>
        /\ stmt = "none" /\ rows = "none"
        /\ "txWrap.func1" \notin RangeOf(defers)
        /\ pc \in {"txWrap_ret", "unwind", "crashed"}
        /\ (pc = "txWrap_ret") => panicking = NoPanic
        /\ (pc # "txWrap_ret") =>
              panicking = <<"Transaction Wrapper error: ", beginRes>>

C5_Witness ==
    /\ beginRes = "SQLITE_IOERR" /\ err = "SQLITE_IOERR"
    /\ pc = "txWrap_ret" /\ stage = 4 /\ wrap = "returned" /\ nExecOK = 6

\* C6: with an empty database filename the program exits with code 3 and
\* dbMain is never entered: nothing is opened, set up, executed or begun
C6_MissingFilenameExits3 ==
    (dbFilename = "") =>
        /\ pc \in {"main", "exited"}
        /\ (pc = "exited") =>
              /\ exitCode = <<ExitFilenameMissing>>
              /\ console = <<"SQLite database filename not specified. Use --db=...">>
        /\ (pc = "main") => (exitCode = <<>> /\ console = <<>>)
        /\ ~dbMainEntered
        /\ db = "unopened" /\ tx = "none" /\ activeTx = 0
        /\ stage = 0 /\ trace = <<>> /\ nExecOK = 0 /\ rowSeqNum = 0
        /\ stmt = "none" /\ rows = "none" /\ wrap = "idle"

C6_Witness ==
    /\ dbFilename = "" /\ pc = "exited" /\ exitCode = <<3>>
    /\ rollbackAlways /\ nRows = 4 /\ noteTextPattern = "%" /\ numMask = 5

\* C7: decoding the short string form of a Config into an all-false Config
\* gives a Config with the same event mask
C7_ShortFormRoundTrip ==
    (mpc = "printed") =>
        EventMask(DecodeStringArg(ZeroConfig, shortForm)) = numMask

C7_Witness ==
    /\ mpc = "printed" /\ maskStr = <<>>
    /\ maskConf0 = [f \in Flags |-> f \in {"Stmt", "Row", "Close"}]
    /\ shortForm = <<"s", "r", "c">> /\ numMask = 13
    /\ DecodeStringArg(ZeroConfig, shortForm) = maskConf0

\* C8: DecodeStringArg sets exactly the flags whose letter occurs in the
\* string and keeps the flags that were true; the event mask is the OR of the
\* bits of the flags true before or named by a letter, other characters and
\* other flags contributing nothing
C8_DecodeIsUnion ==
    LET letter == [f \in Flags |->
                     CASE f = "Stmt" -> "s" [] f = "Profile" -> "p"
                       [] f = "Row" -> "r" [] f = "Close" -> "c"]
        want(f) == maskConf0[f] \/ letter[f] \in RangeOf(maskStr)
        bit(f, b) == IF want(f) THEN b ELSE 0
    IN  /\ (mpc \in {"decoded", "printed"}) =>
              \A f \in Flags : maskConf[f] = want(f)
        /\ (mpc = "printed") =>
              numMask = BitOr(BitOr(bit("Close", 8), bit("Row", 4)),
                              BitOr(bit("Profile", 2), bit("Stmt", 1)))

C8_Witness ==
    /\ mpc = "printed" /\ maskStr = <<"x", "c", "c">>
    /\ maskConf0 = [f \in Flags |-> f = "Stmt"]
    /\ maskConf = [f \in Flags |-> f \in {"Stmt", "Close"}]
    /\ numMask = 9


\* C9: in a unit of work run under txWrap, every statement prepared and every
\* cursor opened is closed by exactly one Close call on every exit path, the
\* cursor before its statement, and all of it before txWrap calls tx.Commit
\* or tx.Rollback; nothing is open once the transaction is finished
C9_ClosedBeforeCommitOrRollback ==
    LET opened(e) == Count(trace, e)
        endAt == IF Index(trace, "Commit") # 0 THEN Index(trace, "Commit")
                 ELSE Index(trace, "Rollback")
    IN  /\ Count(trace, "stmt.Close") <= opened("Prepare")
        /\ Count(trace, "rows.Close") <= opened("Query")
        /\ opened("Prepare") <= 1 /\ opened("Query") <= 1
        /\ (stmt = "open") <=> (opened("Prepare") = 1 /\ Count(trace, "stmt.Close") = 0)
        /\ (rows = "open") <=> (opened("Query") = 1 /\ Count(trace, "rows.Close") = 0)
        /\ (Count(trace, "rows.Close") = 1 /\ Count(trace, "stmt.Close") = 1) =>
              Index(trace, "rows.Close") < Index(trace, "stmt.Close")
        /\ (IsTx(stage) /\ WrapEnded /\ beginRes = NoErr) =>
              /\ stmt # "open" /\ rows # "open"
              /\ Count(trace, "stmt.Close") = opened("Prepare")
              /\ Count(trace, "rows.Close") = opened("Query")
              /\ endAt = Len(trace)
              /\ Index(trace, "stmt.Close") < endAt
              /\ Index(trace, "rows.Close") < endAt
        /\ (IsTx(stage) /\ tx # "Active" /\ wrap # "idle") =>
              stmt # "open" /\ rows # "open"

C9_Witness ==
    /\ stage = 8 /\ wrap = "propagated" /\ tx = "RolledBack"
    /\ trace = <<"Begin", "txFunc", "Prepare", "Query", "rows.Close",
                 "stmt.Close", "Rollback">>
    /\ stmt = "closed" /\ rows = "closed"

\* the larger of two integers
Max(a, b) == IF a >= b THEN a ELSE b

\* every row ever inserted and not lost to a failed commit
AllRows == table \o txRows \o txRolledBack

\* C10 as stated: at most one transaction is active; rowSeqNum has grown by
\* one per insert that succeeded; a run of dbMain that returns 0 ends with
\* rowSeqNum = 4 * nRows
C10_CounterIsFourTimesNRows ==
    /\ activeTx <= 1
    /\ rowSeqNum = nChecked
    /\ (ret = <<0>>) => rowSeqNum = 4 * nRows

\* C10 amended: at most one transaction is active and none while dbMain is
\* between two units of work or in a db function; rowSeqNum never decreases
\* and grows by 1 per insert whose Exec and resultDoCheck both succeed, also
\* in transactions rolled back later, so no sequence number is used twice; an
\* executed insert whose resultDoCheck panics is not counted and the panic
\* ends the run; a run of dbMain that returns 0 ends with
\* rowSeqNum = 4 * max(nRows, 0)
C10_CounterIsFourTimesRowsInserted ==
    /\ [](/\ activeTx \in {0, 1}
          /\ (activeTx = 1) <=> (tx = "Active")
          /\ (pc \in {"call", "txWrap_ret", "dbMain_return", "dbMain_ret"}
                \/ (stage # 0 /\ ~IsTx(stage))) => activeTx = 0
          /\ rowSeqNum = nChecked
          /\ nExecOK - nChecked \in {0, 1}
          /\ (nExecOK # nChecked) => (panicking # NoPanic /\ ret = <<>>)
          /\ \A j, k \in 1..Len(AllRows) :
                (j # k) => AllRows[j][1] # AllRows[k][1]
          /\ \A k \in 1..Len(AllRows) : AllRows[k][1] < nExecOK
          /\ (ret = <<0>>) => rowSeqNum = 4 * Max(nRows, 0))
    /\ [][/\ rowSeqNum' \in {rowSeqNum, rowSeqNum + 1}
          /\ (rowSeqNum' = rowSeqNum + 1) <=> (nChecked' = nChecked + 1)
          /\ (nChecked' # nChecked) => (nExecOK' = nExecOK + 1)]_vars

C10_Witness ==
    /\ ret = <<0>> /\ exitCode = <<0>> /\ rollbackAlways /\ nRows = 4
    /\ rowSeqNum = 16 /\ Len(table) = 8 /\ Len(txRolledBack) = 8

====
